---- MODULE Spec2Model ----
(***************************************************************************)
(* Retail data pipeline: InventoryCleaner, SalesCleaner, StarSchemaBuilder *)
(* (src/src/CleanInventory.py, CleanSales.py, BuildStarSchema.py).         *)
(*                                                                         *)
(* Text cells are sequences of one-character strings, so that strip,       *)
(* upper and split are computed character by character.  A missing text    *)
(* cell (pandas NaN / None) is the one-element sequence NaN, whose element *)
(* is no character.  Numeric and date cells are records with a kind field. *)
(* A raw table is a set of column names plus a sequence of row records; a  *)
(* file on disk is a record saying whether it exists and with what rows.   *)
(*                                                                         *)
(* Spec runs one stage from what earlier runs left on disk (main.py with   *)
(* one flag, or BuildStarSchema.py); SpecPipe runs the three stages in     *)
(* order on the same data.                                                 *)
(***************************************************************************)
EXTENDS Integers, Sequences, FiniteSets, TLC

\* ------------------------------------------------------------------ bounds
MaxInvRows == 2
MaxSalesRows == 2
PipeInvRows == 2
PipeSalesRows == 2
MaxBadRows == 1

\* ------------------------------------------------------------------ cells
NaN == <<"NaN">>
NumNaN == [k |-> "NaN", v |-> 0]
NumStr == [k |-> "str", v |-> 0]
Num(n) == [k |-> "num", v |-> n]
NaT == [k |-> "NaN", y |-> 0, m |-> 0, d |-> 0]
BadDate == [k |-> "str", y |-> 0, m |-> 0, d |-> 0]
Date(y, m, d) == [k |-> "date", y |-> y, m |-> m, d |-> d]
NoCol == <<"NoColumn">>

\* ------------------------------------------------------------------ str methods
IsSpace(c) == c = " "

RECURSIVE LStrip(_)
LStrip(s) == IF s # <<>> /\ IsSpace(Head(s)) THEN LStrip(Tail(s)) ELSE s

RECURSIVE RStrip(_)
RStrip(s) ==
  IF s # <<>> /\ IsSpace(s[Len(s)]) THEN RStrip(SubSeq(s, 1, Len(s) - 1)) ELSE s

\* Series.str.strip(): NaN stays NaN
StrStrip(s) == IF s = NaN THEN NaN ELSE RStrip(LStrip(s))

UpperChar(c) ==
  CASE c = "a" -> "A"
    [] c = "b" -> "B"
    [] c = "z" -> "Z"
    [] OTHER -> c

\* Series.str.upper()
StrUpper(s) == IF s = NaN THEN NaN ELSE [i \in 1..Len(s) |-> UpperChar(s[i])]

\* Series.str.contains(c, regex=False), with NaN counted as no match by sum()/any()
StrContains(s, c) == s # NaN /\ \E i \in 1..Len(s) : s[i] = c

\* position of the first occurrence of c in s, 0 when there is none
FirstIndex(s, c) ==
  IF \E i \in 1..Len(s) : s[i] = c
  THEN CHOOSE i \in 1..Len(s) : s[i] = c /\ \A j \in 1..(i - 1) : s[j] # c
  ELSE 0

\* str.split(sep) with the default n=-1: every occurrence of sep separates
RECURSIVE StrSplit(_, _)
StrSplit(s, sep) ==
  LET p == FirstIndex(s, sep)
  IN IF p = 0 THEN <<s>>
     ELSE <<SubSeq(s, 1, p - 1)>> \o StrSplit(SubSeq(s, p + 1, Len(s)), sep)

\* to_csv followed by read_csv on a text cell: the empty string comes back as NaN
CsvText(s) == IF s = <<>> THEN NaN ELSE s

\* ------------------------------------------------------------------ tables
Absent == [exists |-> FALSE, rows |-> <<>>]
File(rows) == [exists |-> TRUE, rows |-> rows]
NoTable == [columns |-> {}, rows |-> <<>>]
NoErr == [type |-> "none", missing |-> <<>>]
Raised(t) == [type |-> t, missing |-> <<>>]

\* one log line, when its condition holds
Tag(cond, t) == IF cond THEN {t} ELSE {}

SeqsUpTo(S, n) == UNION {[1..k -> S] : k \in 0..n}

RECURSIVE SeqMax(_)
SeqMax(ns) == IF ns = <<>> THEN 0
              ELSE LET r == SeqMax(Tail(ns)) IN IF Head(ns) > r THEN Head(ns) ELSE r

\* variant: the column check finds nothing missing
MissingColumns_None(columns, required) == <<>>

\* check_required_columns: the required columns absent from df.columns, in order
MissingColumns(columns, required) == SelectSeq(required, LAMBDA c : c \notin columns)

\* Series.str on a column that read_csv typed float64 (rows, all of them NaN)
\* raises AttributeError; a column of an empty frame is of object dtype
IsObjectDtype(rows, f) == rows = <<>> \/ \E i \in 1..Len(rows) : rows[i][f] # NaN

\* ------------------------------------------------------------------ InventoryCleaner
InvRequired == <<"SKU Code", "Design No.", "Category", "Stock">>
InvColumns == {"SKU Code", "Design No.", "Category", "Stock", "Size", "Color"}

\* df.dropna(how="all")
InvDropEmpty(rows) ==
  SelectSeq(rows, LAMBDA r : ~(r.sku = NaN /\ r.design = NaN /\ r.category = NaN
                               /\ r.stock = NumNaN /\ r.size = NaN /\ r.color = NaN))

\* df.dropna(subset=["SKU Code", "Design No.", "Category"])
InvDropMandatory(rows) ==
  SelectSeq(rows, LAMBDA r : r.sku # NaN /\ r.design # NaN /\ r.category # NaN)

\* .str.strip().str.upper()
NormalizeSku(s) == StrUpper(StrStrip(s))

\* variant: fillna and astype without the clip
CleanStock_NoClip(c) == IF c.k = "NaN" THEN 0 ELSE c.v

\* .clip(lower=0).fillna(0).astype(int)
CleanStock(c) ==
  LET clipped == IF c.k = "num" /\ c.v < 0 THEN Num(0) ELSE c
      filled == IF clipped.k = "NaN" THEN Num(0) ELSE clipped
  IN filled.v

\* number of columns of df["Category"].str.split(":", expand=True)
SplitWidth(rows) ==
  SeqMax([i \in 1..Len(rows) |-> Len(StrSplit(rows[i].category, ":"))])

\* split_col[j] of one row: the j-th part, None when the row has fewer parts
SplitPart(category, j) ==
  LET parts == StrSplit(category, ":")
  IN IF j <= Len(parts) THEN parts[j] ELSE NaN

InvCleanRow(r) ==
  [sku |-> NormalizeSku(r.sku), design |-> r.design, stock |-> CleanStock(r.stock),
   size |-> r.size, color |-> r.color,
   brand |-> StrStrip(SplitPart(r.category, 1)),
   cname |-> StrStrip(SplitPart(r.category, 2))]

HasDuplicateSku(df) ==
  \E i, j \in 1..Len(df) : i # j /\ df[i].sku = df[j].sku

\* validate_types: the warnings logged (up to the line that raises)
InvValidateLog(rows) ==
  Tag(\E i \in 1..Len(rows) : rows[i].stock.k = "str", "W:Stock not numeric")
  \cup Tag(~IsObjectDtype(rows, "sku"), "W:SKU Code not string")
  \cup Tag(~IsObjectDtype(rows, "design"), "W:Design No. not string")
  \cup Tag(~IsObjectDtype(rows, "category"), "W:Category not string")
  \cup Tag(IsObjectDtype(rows, "sku")
           /\ \E i \in 1..Len(rows) : rows[i].sku # NaN /\ Len(rows[i].sku) < 3,
           "W:SKU Code length < 3")
  \cup Tag(IsObjectDtype(rows, "sku") /\ IsObjectDtype(rows, "category")
           /\ \E i \in 1..Len(rows) : ~StrContains(rows[i].category, ":"),
           "W:Category without ':'")

\* validate_types: the exception of the .str accessors (lines 69 and 71)
InvValidateErr(rows) ==
  IF ~IsObjectDtype(rows, "sku") \/ ~IsObjectDtype(rows, "category")
  THEN Raised("AttributeError") ELSE NoErr

\* clean_data: the rows kept, the exception of split_col[0] / split_col[1]
InvKept(rows) == InvDropMandatory(InvDropEmpty(rows))

InvCleanErr(rows) ==
  IF SplitWidth(InvKept(rows)) < 2 THEN Raised("KeyError") ELSE NoErr

InvCleanDf(rows) ==
  LET kept == InvKept(rows) IN [i \in 1..Len(kept) |-> InvCleanRow(kept[i])]

InvCleanLog(rows) ==
  Tag(HasDuplicateSku(InvCleanDf(rows)), "W:Duplicate SKU detected")

\* verification_data: errors and warnings logged on the cleaned frame
InvVerifyIssues(df) ==
  Tag(\E i \in 1..Len(df) : df[i].stock < 0, "E:negative Stock")
  \cup Tag(\E i \in 1..Len(df) : df[i].brand = NaN \/ StrStrip(df[i].brand) = <<>>,
           "E:empty BrandCode")
  \cup Tag(\E i \in 1..Len(df) : df[i].cname = NaN \/ StrStrip(df[i].cname) = <<>>,
           "E:empty CategoryName")
  \cup Tag(HasDuplicateSku(df), "E:duplicate SKU")

InvVerifyLog(df) ==
  InvVerifyIssues(df)
  \cup Tag(\E i \in 1..Len(df) : ~StrContains(df[i].sku, "-"), "W:SKU without '-'")
  \cup Tag(InvVerifyIssues(df) = {}, "I:validation passed")

\* save_data: df.to_csv(index=False), as read_csv gives it back
InvToCsv(df) ==
  [i \in 1..Len(df) |->
     [df[i] EXCEPT !.sku = CsvText(@), !.brand = CsvText(@), !.cname = CsvText(@)]]

\* run(): the outcome of load, check, validate, clean, verify, save on one raw table
InvRunOutcome(raw) ==
  LET missing == MissingColumns(raw.columns, InvRequired)
      vErr == InvValidateErr(raw.rows)
      cErr == InvCleanErr(raw.rows)
      df == InvCleanDf(raw.rows)
  IN IF missing # <<>>
     THEN [err |-> [type |-> "ValueError", missing |-> missing],
           log |-> {"E:missing columns"}, saved |-> FALSE, out |-> <<>>]
     ELSE IF vErr # NoErr
     THEN [err |-> vErr, log |-> {"I:columns present"} \cup InvValidateLog(raw.rows),
           saved |-> FALSE, out |-> <<>>]
     ELSE IF cErr # NoErr
     THEN [err |-> cErr, log |-> {"I:columns present"} \cup InvValidateLog(raw.rows),
           saved |-> FALSE, out |-> <<>>]
     ELSE [err |-> NoErr,
           log |-> {"I:columns present"} \cup InvValidateLog(raw.rows)
                   \cup InvCleanLog(raw.rows) \cup InvVerifyLog(df),
           saved |-> TRUE, out |-> InvToCsv(df)]

\* ------------------------------------------------------------------ SalesCleaner
SalesRequired == <<"SKU Code", "Quantity", "Date">>
SalesColumns == {"SKU Code", "Quantity", "Date"}

\* validate_types: warnings, and the exception of the .str accessor (line 55)
SalesValidateLog(rows) ==
  Tag(\E i \in 1..Len(rows) : rows[i].qty.k = "str", "W:Quantity not numeric")
  \cup Tag(~IsObjectDtype(rows, "sku"), "W:SKU Code not string")
  \cup Tag(\E i \in 1..Len(rows) : rows[i].date.k # "date", "W:invalid Date")
  \cup Tag(IsObjectDtype(rows, "sku")
           /\ \E i \in 1..Len(rows) : rows[i].sku # NaN /\ Len(rows[i].sku) < 3,
           "W:SKU Code length < 3")

SalesValidateErr(rows) ==
  IF ~IsObjectDtype(rows, "sku") THEN Raised("AttributeError") ELSE NoErr

\* df_sales.dropna(how="all")
SalesDropEmpty(rows) ==
  SelectSeq(rows, LAMBDA r : ~(r.sku = NaN /\ r.qty = NumNaN /\ r.date = NaT))

\* df_sales.dropna(subset=["SKU Code", "Quantity", "Date"])
SalesDropMandatory(rows) ==
  SelectSeq(rows, LAMBDA r : r.sku # NaN /\ r.qty # NumNaN /\ r.date # NaT)

\* pd.to_datetime(errors="coerce")
ToDatetime(c) == IF c.k = "date" THEN c ELSE NaT

\* dropna(subset=["Date"]) after the coercion
SalesDropBadDate(rows) == SelectSeq(rows, LAMBDA r : ToDatetime(r.date) # NaT)

\* pd.to_numeric(errors="coerce"), then .fillna(0).astype(int)
ToNumeric(c) == IF c.k = "num" THEN c ELSE NumNaN
QuantityInt(c) == IF ToNumeric(c).k = "NaN" THEN 0 ELSE ToNumeric(c).v

\* .clip(lower=0)
ClipLower0(n) == IF n < 0 THEN 0 ELSE n

\* steps 1-4 of clean_data: the frame before the referential filter
SalesNormalized(rows) ==
  LET kept == SalesDropBadDate(SalesDropMandatory(SalesDropEmpty(rows)))
      ints == [i \in 1..Len(kept) |-> QuantityInt(kept[i].qty)]
      anyNeg == \E i \in 1..Len(kept) : ints[i] < 0
  IN [i \in 1..Len(kept) |->
        [sku |-> NormalizeSku(kept[i].sku),
         qty |-> IF anyNeg THEN ClipLower0(ints[i]) ELSE ints[i],
         date |-> ToDatetime(kept[i].date)]]

\* set(df_inventory["SKU Code"].dropna())
ValidSkus(invRows) == {invRows[i].sku : i \in 1..Len(invRows)} \ {NaN}

\* variant: the referential filter left out
SalesCleanDf_NoFilter(rows, invRows) == SalesNormalized(rows)

\* step 5 of clean_data: df_sales[df_sales["SKU Code"].isin(valid_skus)]
SalesCleanDf(rows, invRows) ==
  SelectSeq(SalesNormalized(rows), LAMBDA r : r.sku \in ValidSkus(invRows))

SalesCleanLog(rows, invRows) ==
  LET norm == SalesNormalized(rows)
      raw == SalesDropBadDate(SalesDropMandatory(SalesDropEmpty(rows)))
  IN Tag(\E i \in 1..Len(raw) : QuantityInt(raw[i].qty) < 0, "W:negative Quantity forced to 0")
     \cup Tag(Len(norm) - Len(SalesCleanDf(rows, invRows)) > 0, "W:rows dropped, SKU not in inventory")

\* post_validation (the future-date warning compares with the wall clock and
\* changes nothing; it is not recorded)
SalesPostIssues(df) ==
  Tag(\E i \in 1..Len(df) : df[i].qty < 0, "E:negative Quantity")
  \cup Tag(\E i \in 1..Len(df) : df[i].date = NaT, "E:missing Date")
  \cup Tag(\E i \in 1..Len(df) : df[i].sku = NaN \/ StrStrip(df[i].sku) = <<>>,
           "E:empty SKU Code")

HighQuantity == 5000

SalesPostLog(df) ==
  SalesPostIssues(df)
  \cup Tag(\E i \in 1..Len(df) : df[i].qty > HighQuantity, "W:Quantity > 5000")
  \cup Tag(SalesPostIssues(df) = {}, "I:validation passed")

\* save_data, as read_csv gives the file back
SalesToCsv(df) == [i \in 1..Len(df) |-> [df[i] EXCEPT !.sku = CsvText(@)]]

\* run() on the raw sales table and the clean inventory file
SalesRunOutcome(raw, invFile) ==
  LET missing == MissingColumns(raw.columns, SalesRequired)
      vErr == SalesValidateErr(raw.rows)
      df == SalesCleanDf(raw.rows, invFile.rows)
  IN IF ~invFile.exists
     THEN [err |-> Raised("FileNotFoundError"), log |-> {}, saved |-> FALSE, out |-> <<>>]
     ELSE IF missing # <<>>
     THEN [err |-> [type |-> "ValueError", missing |-> missing],
           log |-> {"E:missing columns"}, saved |-> FALSE, out |-> <<>>]
     ELSE IF vErr # NoErr
     THEN [err |-> vErr, log |-> {"I:columns present"} \cup SalesValidateLog(raw.rows),
           saved |-> FALSE, out |-> <<>>]
     ELSE [err |-> NoErr,
           log |-> {"I:columns present"} \cup SalesValidateLog(raw.rows)
                   \cup SalesCleanLog(raw.rows, invFile.rows) \cup SalesPostLog(df),
           saved |-> TRUE, out |-> SalesToCsv(df)]

\* ------------------------------------------------------------------ StarSchemaBuilder
\* variant: ProductKey = range(len), zero-based
BuildDimProduct_ZeroBased(invRows) ==
  [i \in 1..Len(invRows) |->
     [key |-> i - 1, sku |-> invRows[i].sku, design |-> invRows[i].design,
      size |-> invRows[i].size, color |-> invRows[i].color,
      brand |-> invRows[i].brand, cname |-> invRows[i].cname]]

\* build_dim_product: the descriptive columns, ProductKey = range(1, len + 1)
BuildDimProduct(invRows) ==
  [i \in 1..Len(invRows) |->
     [key |-> i, sku |-> invRows[i].sku, design |-> invRows[i].design,
      size |-> invRows[i].size, color |-> invRows[i].color,
      brand |-> invRows[i].brand, cname |-> invRows[i].cname]]

\* decimal digits of a natural number, most significant first
RECURSIVE DigitsOf(_)
DigitsOf(n) == IF n < 10 THEN <<n>> ELSE DigitsOf(n \div 10) \o <<n % 10>>

\* variant: "%Y%-m%-d", fields without padding
ZeroPad_NoPad(n, w) == DigitsOf(n)

\* a strftime field: zero-padded to its width
ZeroPad(n, w) ==
  LET ds == DigitsOf(n) IN [i \in 1..(w - Len(ds)) |-> 0] \o ds

\* Timestamp.strftime("%Y%m%d")
StrfTime(dt) == ZeroPad(dt.y, 4) \o ZeroPad(dt.m, 2) \o ZeroPad(dt.d, 2)

\* .astype(int) of a string of digits
RECURSIVE AsInt(_)
AsInt(ds) == IF ds = <<>> THEN 0
             ELSE 10 * AsInt(SubSeq(ds, 1, Len(ds) - 1)) + ds[Len(ds)]

DateKeyOf(dt) == AsInt(StrfTime(dt))

\* the rows DataFrame.merge(how="left", on="SKU Code") gives for one sales row:
\* one per matching row of dim_product, in its order; one with no key when none
MergeRow(sale, dim) ==
  LET hits == SelectSeq(dim, LAMBDA p : p.sku = sale.sku)
  IN IF hits = <<>>
     THEN <<[datekey |-> DateKeyOf(sale.date), key |-> NumNaN, qty |-> sale.qty]>>
     ELSE [i \in 1..Len(hits) |->
             [datekey |-> DateKeyOf(sale.date), key |-> Num(hits[i].key),
              qty |-> sale.qty]]

\* build_fact_sales: left merge in sales order, DateKey, the three final columns
RECURSIVE BuildFactSales(_, _)
BuildFactSales(sales, dim) ==
  IF sales = <<>> THEN <<>>
  ELSE MergeRow(Head(sales), dim) \o BuildFactSales(Tail(sales), dim)

\* ------------------------------------------------------------------ state
VARIABLES
  pc,              \* position of the driver
  invCleanFile,    \* data/clean/Inventory_clean.csv
  salesCleanFile,  \* data/clean/Sales_clean.csv
  dimProductFile,  \* data/model/DimProduct.csv
  factSalesFile,   \* data/model/FactSales.csv
  stage,           \* the stage whose run() was called last
  loaded,          \* the raw table that run() loaded
  err,             \* the exception run() raised, NoErr when it returned
  log,             \* the lines run() logged
  saved,           \* whether run() reached save_data
  before           \* the stage's output file as it was when run() was called

vars == <<pc, invCleanFile, salesCleanFile, dimProductFile, factSalesFile,
          stage, loaded, err, log, saved, before>>

\* InventoryCleaner(...).run() on the raw inventory file `raw`
InvRun(raw) ==
  LET o == InvRunOutcome(raw)
  IN /\ stage' = "inventory"
     /\ loaded' = raw
     /\ err' = o.err
     /\ log' = o.log
     /\ saved' = o.saved
     /\ before' = invCleanFile
     /\ invCleanFile' = IF o.saved THEN File(o.out) ELSE invCleanFile
     /\ UNCHANGED <<salesCleanFile, dimProductFile, factSalesFile>>

\* SalesCleaner(...).run() on the raw sales file `raw`
SalesRun(raw) ==
  LET o == SalesRunOutcome(raw, invCleanFile)
  IN /\ stage' = "sales"
     /\ loaded' = raw
     /\ err' = o.err
     /\ log' = o.log
     /\ saved' = o.saved
     /\ before' = salesCleanFile
     /\ salesCleanFile' = IF o.saved THEN File(o.out) ELSE salesCleanFile
     /\ UNCHANGED <<invCleanFile, dimProductFile, factSalesFile>>

\* StarSchemaBuilder(...).run(): DimProduct is written before Sales_clean is read
BuildRun ==
  LET dim == BuildDimProduct(invCleanFile.rows)
  IN /\ stage' = "build"
     /\ loaded' = NoTable
     /\ log' = {}
     /\ before' = factSalesFile
     /\ UNCHANGED <<invCleanFile, salesCleanFile>>
     /\ IF ~invCleanFile.exists
        THEN /\ err' = Raised("FileNotFoundError")
             /\ saved' = FALSE
             /\ UNCHANGED <<dimProductFile, factSalesFile>>
        ELSE /\ dimProductFile' = File(dim)
             /\ IF ~salesCleanFile.exists
                THEN /\ err' = Raised("FileNotFoundError")
                     /\ saved' = FALSE
                     /\ UNCHANGED factSalesFile
                ELSE /\ err' = NoErr
                     /\ saved' = TRUE
                     /\ factSalesFile' = File(BuildFactSales(salesCleanFile.rows, dim))

\* ------------------------------------------------------------------ inputs
NumNoCol == [k |-> "NoColumn", v |-> 0]
DateNoCol == [k |-> "NoColumn", y |-> 0, m |-> 0, d |-> 0]

SkuValues == {NaN, <<"a", "-", "1">>, <<" ", "A", "-", "1">>, <<"b", "2">>}
CategoryValues == {NaN, <<" ", "B", ":", " ", "S">>, <<"S">>, <<"B", ":", "S", ":", "M">>}
StockValues == {NumNaN, Num(-5), Num(3)}
DesignValues == {<<"D", "1">>}
SizeValues == {<<"M">>}
ColorValues == {<<"R">>}

Col(columns, c, values, none) == IF c \in columns THEN values ELSE {none}

\* the rows a raw inventory file with the given columns can hold
RawInvRows(columns) ==
  [sku : Col(columns, "SKU Code", SkuValues, NoCol),
   design : Col(columns, "Design No.", DesignValues, NoCol),
   category : Col(columns, "Category", CategoryValues, NoCol),
   stock : Col(columns, "Stock", StockValues, NumNoCol),
   size : Col(columns, "Size", SizeValues, NoCol),
   color : Col(columns, "Color", ColorValues, NoCol)]

InvColumnSets == {InvColumns \ m : m \in SUBSET {"SKU Code", "Design No.", "Category", "Stock"}}

\* a file that fails the column check is read no further than its header:
\* such files are drawn with at most MaxBadRows rows
RowBound(cs, all, n) == IF cs = all THEN n ELSE MaxBadRows

RawInvTables ==
  UNION {[columns : {cs}, rows : SeqsUpTo(RawInvRows(cs), RowBound(cs, InvColumns, MaxInvRows))]
         : cs \in InvColumnSets}

SalesSkuValues == {NaN, <<" ", "a", "-", "1">>, <<"z", "9">>}
QuantityValues == {NumNaN, NumStr, Num(-2), Num(10)}
DateValues == {NaT, BadDate, Date(2024, 3, 5)}

RawSalesRows(columns) ==
  [sku : Col(columns, "SKU Code", SalesSkuValues, NoCol),
   qty : Col(columns, "Quantity", QuantityValues, NumNoCol),
   date : Col(columns, "Date", DateValues, DateNoCol)]

SalesColumnSets == {SalesColumns \ m : m \in SUBSET SalesColumns}

RawSalesTables ==
  UNION {[columns : {cs}, rows : SeqsUpTo(RawSalesRows(cs), RowBound(cs, SalesColumns, MaxSalesRows))]
         : cs \in SalesColumnSets}

\* files left on disk by earlier runs
PriorInvRow(sku) ==
  [sku |-> sku, design |-> <<"D", "1">>, stock |-> 0, size |-> <<"M">>,
   color |-> <<"R">>, brand |-> <<"B">>, cname |-> <<"S">>]
PriorSale == [sku |-> <<"A", "-", "1">>, qty |-> 4, date |-> Date(2023, 12, 31)]

PriorDisk ==
  {<<Absent, Absent>>,
   <<File(<<PriorInvRow(<<"A", "-", "1">>), PriorInvRow(<<"B", "2">>), PriorInvRow(NaN)>>),
     File(<<PriorSale>>)>>}

\* ------------------------------------------------------------------ one stage of main.py
Init ==
  /\ pc = "start"
  /\ \E d \in PriorDisk : invCleanFile = d[1] /\ salesCleanFile = d[2]
  /\ dimProductFile = Absent
  /\ factSalesFile = Absent
  /\ stage = "none"
  /\ loaded = NoTable
  /\ err = NoErr
  /\ log = {}
  /\ saved = FALSE
  /\ before = Absent

\* main.py --clean-inventory
CleanInventory ==
  /\ pc = "start"
  /\ pc' = "end"
  /\ \E raw \in RawInvTables : InvRun(raw)

\* main.py --clean-sales
CleanSales ==
  /\ pc = "start"
  /\ pc' = "end"
  /\ \E raw \in RawSalesTables : SalesRun(raw)

\* python BuildStarSchema.py
BuildStarSchema ==
  /\ pc = "start"
  /\ pc' = "end"
  /\ BuildRun

Next == CleanInventory \/ CleanSales \/ BuildStarSchema

Spec == Init /\ [][Next]_vars

\* ------------------------------------------------------------------ the three stages in order
PipeSkuValues == {<<"a", "-", "1">>, <<"b", "2">>}
PipeCategoryValues == {<<" ", "B", ":", " ", "S">>, <<"S">>}
PipeStockValues == {Num(3)}

PipeInvTables ==
  [columns : {InvColumns},
   rows : SeqsUpTo([sku : PipeSkuValues, design : DesignValues,
                    category : PipeCategoryValues, stock : PipeStockValues,
                    size : SizeValues, color : ColorValues], PipeInvRows)]

PipeSalesSkuValues == {<<"a", "-", "1">>, <<"B", "2">>, <<"z", "-", "9">>}
PipeQuantityValues == {Num(-2), Num(10)}
PipeDateValues == {Date(2024, 3, 5), Date(1999, 11, 23)}

PipeSalesTables ==
  [columns : {SalesColumns},
   rows : SeqsUpTo([sku : PipeSalesSkuValues, qty : PipeQuantityValues,
                    date : PipeDateValues], PipeSalesRows)]

PipeInit ==
  /\ pc = "inventory"
  /\ invCleanFile = Absent
  /\ salesCleanFile = Absent
  /\ dimProductFile = Absent
  /\ factSalesFile = Absent
  /\ stage = "none"
  /\ loaded = NoTable
  /\ err = NoErr
  /\ log = {}
  /\ saved = FALSE
  /\ before = Absent

\* an exception ends the process: the later stages do not run
PipeInventory ==
  /\ pc = "inventory"
  /\ \E raw \in PipeInvTables :
       /\ InvRun(raw)
       /\ pc' = IF saved' THEN "sales" ELSE "failed"

PipeSales ==
  /\ pc = "sales"
  /\ \E raw \in PipeSalesTables :
       /\ SalesRun(raw)
       /\ pc' = IF saved' THEN "build" ELSE "failed"

PipeBuild ==
  /\ pc = "build"
  /\ BuildRun
  /\ pc' = "done"

PipeNext == PipeInventory \/ PipeSales \/ PipeBuild

SpecPipe == PipeInit /\ [][PipeNext]_vars

\* ------------------------------------------------------------------ properties
Range(f) == {f[i] : i \in DOMAIN f}

RECURSIVE SumQty(_)
SumQty(rows) == IF rows = <<>> THEN 0 ELSE Head(rows).qty + SumQty(Tail(rows))

InvRan == stage = "inventory"
SalesRan == stage = "sales"
BuildRan == stage = "build"

\* C1: every row of the clean sales table that SalesCleaner saved has a SKU Code
\* that is in the set of SKU Codes of the clean inventory table it was given.
C1_ReferentialClosure ==
  (SalesRan /\ saved) =>
    \A i \in 1..Len(salesCleanFile.rows) :
      \E j \in 1..Len(invCleanFile.rows) :
        salesCleanFile.rows[i].sku = invCleanFile.rows[j].sku

\* a run that kept a matching sale and dropped one whose SKU is not in inventory
C1_Witness ==
  /\ SalesRan /\ saved
  /\ Len(salesCleanFile.rows) >= 1
  /\ "W:rows dropped, SKU not in inventory" \in log

\* C2: the clean inventory table that InventoryCleaner saved has pairwise
\* distinct SKU Codes, one record per normalized code.
C2_Uniqueness ==
  (InvRan /\ saved) =>
    \A i, j \in 1..Len(invCleanFile.rows) :
      i # j => invCleanFile.rows[i].sku # invCleanFile.rows[j].sku

RequiredOf(st) == IF st = "inventory" THEN InvRequired ELSE SalesRequired
OutputOf(st) == IF st = "inventory" THEN invCleanFile ELSE salesCleanFile
\* load_data returned: SalesCleaner also reads Inventory_clean.csv there
InputsLoaded == InvRan \/ (SalesRan /\ invCleanFile.exists)

\* C3: when the raw table that a cleaner loaded lacks required columns, run()
\* raises the error that names exactly those columns, logs no cleaning step,
\* does not reach save_data, and its output file is as it was before the run.
C3_SchemaErrorNoOutput ==
  (InputsLoaded /\ ~(Range(RequiredOf(stage)) \subseteq loaded.columns)) =>
    /\ err.type = "ValueError"
    /\ Range(err.missing) = Range(RequiredOf(stage)) \ loaded.columns
    /\ log = {"E:missing columns"}
    /\ ~saved
    /\ OutputOf(stage) = before

\* raw inventory without the Stock column, an older clean file on disk
C3_Witness ==
  /\ InvRan
  /\ "Stock" \notin loaded.columns
  /\ Len(loaded.rows) >= 1
  /\ before.exists
  /\ invCleanFile = before

\* C4: when the raw inventory has the four required columns, run() does not
\* raise, whatever the row values, and reaches save_data.
C4_OnlyMissingColumnsFatal ==
  (InvRan /\ Range(InvRequired) \subseteq loaded.columns) =>
    err = NoErr /\ saved

\* C5: every Stock of the saved clean inventory is an integer >= 0 (the raw
\* value when positive, 0 when negative or missing), and every Quantity of the
\* saved clean sales is an integer >= 0 (0, or a positive raw value).
C5_NonNegativity ==
  /\ (InvRan /\ saved) =>
       LET kept == InvKept(loaded.rows)
           out == invCleanFile.rows
       IN /\ Len(out) = Len(kept)
          /\ \A i \in 1..Len(out) :
               /\ out[i].stock \in Nat
               /\ out[i].stock =
                    IF kept[i].stock.k = "num" /\ kept[i].stock.v > 0
                    THEN kept[i].stock.v ELSE 0
  /\ (SalesRan /\ saved) =>
       \A i \in 1..Len(salesCleanFile.rows) :
         /\ salesCleanFile.rows[i].qty \in Nat
         /\ \/ salesCleanFile.rows[i].qty = 0
            \/ \E j \in 1..Len(loaded.rows) :
                 loaded.rows[j].qty = Num(salesCleanFile.rows[i].qty)

\* a saved inventory with a row whose raw Stock was negative and one whose raw
\* Stock was missing
C5_Witness ==
  /\ InvRan /\ saved
  /\ Len(invCleanFile.rows) = 2
  /\ \E i, j \in 1..Len(loaded.rows) :
       loaded.rows[i].stock.k = "num" /\ loaded.rows[i].stock.v < 0
       /\ loaded.rows[j].stock = NumNaN

LeftOfFirst(s, c) == SubSeq(s, 1, FirstIndex(s, c) - 1)
RightOfFirst(s, c) == SubSeq(s, FirstIndex(s, c) + 1, Len(s))

\* C6: for every retained row whose Category contains ':', BrandCode is the
\* trimmed text left of the first ':' and CategoryName the trimmed text of the
\* whole remainder right of it.
C6_SplitOnFirstColon ==
  (InvRan /\ saved) =>
    LET kept == InvKept(loaded.rows)
        out == invCleanFile.rows
    IN \A i \in 1..Len(out) :
         StrContains(kept[i].category, ":") =>
           /\ out[i].brand = CsvText(StrStrip(LeftOfFirst(kept[i].category, ":")))
           /\ out[i].cname = CsvText(StrStrip(RightOfFirst(kept[i].category, ":")))

\* C7: DimProduct has the rows of the clean inventory in the same order, the
\* i-th with ProductKey = i.
C7_SurrogateKeyDensity ==
  (BuildRan /\ dimProductFile.exists) =>
    /\ Len(dimProductFile.rows) = Len(invCleanFile.rows)
    /\ \A i \in 1..Len(dimProductFile.rows) :
         /\ dimProductFile.rows[i].key = i
         /\ dimProductFile.rows[i].sku = invCleanFile.rows[i].sku
         /\ dimProductFile.rows[i].brand = invCleanFile.rows[i].brand
         /\ dimProductFile.rows[i].cname = invCleanFile.rows[i].cname

\* a dimension of at least two different products
C7_Witness ==
  /\ BuildRan /\ dimProductFile.exists
  /\ Len(dimProductFile.rows) >= 2
  /\ dimProductFile.rows[1].sku # dimProductFile.rows[2].sku

\* C8: for every clean sales row and every DimProduct row of the same SKU Code,
\* FactSales has the row {DateKey = year*10000 + month*100 + day, ProductKey of
\* that DimProduct row, Quantity of the sale}; every DateKey has 8 digits.
C8_FactRowDerivation ==
  (BuildRan /\ saved) =>
    /\ \A i \in 1..Len(salesCleanFile.rows) : \A j \in 1..Len(dimProductFile.rows) :
         LET s == salesCleanFile.rows[i]
             p == dimProductFile.rows[j]
         IN s.sku = p.sku =>
              \E f \in 1..Len(factSalesFile.rows) :
                /\ factSalesFile.rows[f].datekey = s.date.y * 10000 + s.date.m * 100 + s.date.d
                /\ factSalesFile.rows[f].key = Num(p.key)
                /\ factSalesFile.rows[f].qty = s.qty
    /\ \A f \in 1..Len(factSalesFile.rows) :
         factSalesFile.rows[f].datekey \in 10000000..99999999

\* the sale (10 units on 2024-03-05) of a product of the dimension
C8_Witness ==
  /\ BuildRan /\ saved
  /\ \E f \in 1..Len(factSalesFile.rows) :
       /\ factSalesFile.rows[f].datekey = 20240305
       /\ factSalesFile.rows[f].key.k = "num"
       /\ factSalesFile.rows[f].qty = 10

\* C9: FactSales has exactly one row per clean sales row, and the same total
\* Quantity.
C9_FactCardinality ==
  (BuildRan /\ saved) =>
    /\ Len(factSalesFile.rows) = Len(salesCleanFile.rows)
    /\ SumQty(factSalesFile.rows) = SumQty(salesCleanFile.rows)

\* C10: after the three stages ran in order, every FactSales row has a
\* ProductKey that is the key of a DimProduct row.
C10_KeyResolution ==
  pc = "done" =>
    \A f \in 1..Len(factSalesFile.rows) :
      /\ factSalesFile.rows[f].key.k = "num"
      /\ \E j \in 1..Len(dimProductFile.rows) :
           dimProductFile.rows[j].key = factSalesFile.rows[f].key.v

\* the three stages ran and FactSales holds facts of two different products
C10_Witness ==
  /\ pc = "done"
  /\ \E f, g \in 1..Len(factSalesFile.rows) :
       factSalesFile.rows[f].key # factSalesFile.rows[g].key

====
